---- MODULE Spec2Model ----
(***************************************************************************)
(* A model of the vivaldi-history pipeline:                                *)
(*   export_vivaldi_history.py  (raw rows -> records -> per-source files)  *)
(*   merge_timeline_data.py     (per-source files -> merged files)         *)
(*                                                                         *)
(* Conventions of the model                                                *)
(*   - a 32-bit transition value is the set of its one-bits (a subset of   *)
(*     0..31), because 0x80000000 does not fit TLC's integers;             *)
(*   - a visit time is counted in hours since the Chrome epoch             *)
(*     (1601-01-01, a Monday), so date = t \div 24, hour = t % 24 and      *)
(*     weekday = date % 7; a date stands for its "YYYY-MM-DD" string,      *)
(*     whose lexicographic order is the order of the numbers;              *)
(*   - a URL is the record of the components urlparse splits it into       *)
(*     (kind "malformed" is a URL on which urlparse raises ValueError,     *)
(*     kind "empty" the empty string); host, path and query values are     *)
(*     strings, and lower() and the substring test work on them;           *)
(*   - Python's None is the record None, a present value x is Some(x);     *)
(*   - a Counter / dict is the sequence of its <<key, count>> pairs in     *)
(*     insertion order; a set whose iteration order Python leaves open is  *)
(*     a set; a directory is a function from file keys to contents;        *)
(*   - in the timestamp conversions an instant is [seconds, micros] (whole *)
(*     seconds since the UNIX epoch, microseconds below the second), an    *)
(*     integer too wide for TLC is a pair <<a, b>> standing for            *)
(*     a * 10^6 + b, and a double is its exact value, rounded to the       *)
(*     double's grid after every operation.                                *)
(***************************************************************************)
EXTENDS Integers, Sequences, FiniteSets, TLC

VARIABLES
    history,     \* per browser: the rows of its history database, by visit time
    now,         \* the wall clock, in hours since the Chrome epoch
    disk,        \* per source name: the directory an export writes into
    mergeDir,    \* timeline_data/merge
    lastRun,     \* the last program run: which, its arguments, its exit status
    runs,        \* the number of program runs so far
    transition,  \* input of the decode_transition specification
    decoded,     \* its output
    instant,     \* input of the timestamp conversion specification
    roundTrip,   \* its output: the Chrome timestamp and the instant read back
    queryUrl,    \* input of the extract_search_query specification
    queryResult  \* its output

vars == <<history, now, disk, mergeDir, lastRun, runs, transition, decoded,
          instant, roundTrip, queryUrl, queryResult>>

\* The browsers, each a source of the merge by its name.
SourceNames == {"vivaldi", "chrome"}

None == [has |-> FALSE, v |-> ""]

Some(x) == [has |-> TRUE, v |-> x]

-----------------------------------------------------------------------------
(* Generic helpers for sequences, dicts and Counters.                      *)

Range(s) == {s[i] : i \in 1..Len(s)}

Min(a, b) == IF a <= b THEN a ELSE b

RECURSIVE SumSeq(_)
SumSeq(s) == IF s = <<>> THEN 0 ELSE Head(s) + SumSeq(Tail(s))

\* The elements of a finite set of integers in ascending order (sorted(...)).
RECURSIVE SortedInts(_)
SortedInts(S) ==
    IF S = {} THEN <<>>
    ELSE LET m == CHOOSE x \in S : \A y \in S : x <= y
         IN <<m>> \o SortedInts(S \ {m})

\* f overwritten by g where g is defined: files written over a directory.
Overwrite(f, g) ==
    [k \in DOMAIN f \cup DOMAIN g |-> IF k \in DOMAIN g THEN g[k] ELSE f[k]]

\* Position of a key among the <<key, value>> pairs, 0 when it is not a key.
KeyIndex(c, k) ==
    IF \E i \in 1..Len(c) : c[i][1] = k
    THEN CHOOSE i \in 1..Len(c) : c[i][1] = k
    ELSE 0

\* dict.get(k): Some(value) or None.
DictGet(d, k) ==
    LET i == KeyIndex(d, k) IN IF i = 0 THEN None ELSE Some(d[i][2])

\* The pairs whose key occurs for the first time, in order: the keys of a dict
\* or Counter filled in that order.
FirstOccurrences(pairs) ==
    LET firsts == {i \in 1..Len(pairs) :
                      \A j \in 1..(i - 1) : pairs[j][1] # pairs[i][1]}
        indexed == [i \in 1..Len(pairs) |-> <<i, pairs[i]>>]
        kept == SelectSeq(indexed, LAMBDA e : e[1] \in firsts)
    IN [p \in 1..Len(kept) |-> kept[p][2]]

\* The Counter after counter[k] += n for the pairs <<k, n>> in order: a key
\* keeps the place of its first insertion and sums its counts.
CounterOfPairs(pairs) ==
    LET firsts == FirstOccurrences(pairs)
    IN [p \in 1..Len(firsts) |->
          LET mine == SelectSeq(pairs, LAMBDA q : q[1] = firsts[p][1])
          IN <<firsts[p][1], SumSeq([i \in 1..Len(mine) |-> mine[i][2]])>>]

\* Counter(iterable): counter[k] += 1 for the keys in order.
CounterOf(keys) == CounterOfPairs([i \in 1..Len(keys) |-> <<keys[i], 1>>])

\* The dict after d.setdefault(k, v) for the pairs in order: the first value
\* of a key stays.
DictOfFirst(pairs) == FirstOccurrences(pairs)

\* The dict after d[k] = v for the pairs in order: the last value of a key
\* stays, at the place of the key's first insertion.
DictOfLast(pairs) ==
    LET firsts == FirstOccurrences(pairs)
    IN [p \in 1..Len(firsts) |->
          LET mine == SelectSeq(pairs, LAMBDA q : q[1] = firsts[p][1])
          IN mine[Len(mine)]]

Counts(c) == {c[i][2] : i \in 1..Len(c)}

\* The pairs by descending count, pairs of equal count last-inserted first.
RECURSIVE BucketsReversed(_, _, _)
BucketsReversed(c, v, lowest) ==
    IF v < lowest THEN <<>>
    ELSE LET b == SelectSeq(c, LAMBDA p : p[2] = v)
         IN [i \in 1..Len(b) |-> b[Len(b) + 1 - i]] \o BucketsReversed(c, v - 1, lowest)

\* The pairs by descending count, pairs of equal count in their order in c: a
\* stable sort, one bucket per count.
RECURSIVE Buckets(_, _, _)
Buckets(c, v, lowest) ==
    IF v < lowest THEN <<>>
    ELSE SelectSeq(c, LAMBDA p : p[2] = v) \o Buckets(c, v - 1, lowest)

SortedDescReversedTies(c) ==
    IF c = <<>> THEN <<>>
    ELSE BucketsReversed(c, CHOOSE v \in Counts(c) : \A w \in Counts(c) : w <= v,
                         CHOOSE v \in Counts(c) : \A w \in Counts(c) : v <= w)

\* sorted(c.items(), key=count, reverse=True): stable, so pairs of equal count
\* stay in insertion order.
SortedDesc(c) ==
    IF c = <<>> THEN <<>>
    ELSE Buckets(c, CHOOSE v \in Counts(c) : \A w \in Counts(c) : w <= v,
                 CHOOSE v \in Counts(c) : \A w \in Counts(c) : v <= w)

\* Counter.most_common(n) = heapq.nlargest(n, items, key=count), which is
\* sorted(items, key=count, reverse=True)[:n].
MostCommon(c, n) ==
    LET s == SortedDesc(c) IN SubSeq(s, 1, Min(n, Len(s)))

-----------------------------------------------------------------------------
(* Strings.                                                                *)

\* The lower-case letter of every upper-case ASCII letter.
LowerTable ==
    [A |-> "a", B |-> "b", C |-> "c", D |-> "d", E |-> "e", F |-> "f", G |-> "g",
     H |-> "h", I |-> "i", J |-> "j", K |-> "k", L |-> "l", M |-> "m", N |-> "n",
     O |-> "o", P |-> "p", Q |-> "q", R |-> "r", S |-> "s", T |-> "t", U |-> "u",
     V |-> "v", W |-> "w", X |-> "x", Y |-> "y", Z |-> "z"]

LowerChar(ch) == IF ch \in DOMAIN LowerTable THEN LowerTable[ch] ELSE ch

\* str.lower()
RECURSIVE Lower(_)
Lower(s) ==
    IF Len(s) = 0 THEN ""
    ELSE LowerChar(SubSeq(s, 1, 1)) \o Lower(SubSeq(s, 2, Len(s)))

\* sub in s
Contains(s, sub) ==
    \E i \in 1..(Len(s) - Len(sub) + 1) : SubSeq(s, i, i + Len(sub) - 1) = sub

\* s.startswith(prefix)
StartsWith(s, prefix) ==
    Len(s) >= Len(prefix) /\ SubSeq(s, 1, Len(prefix)) = prefix

-----------------------------------------------------------------------------
(* decode_transition                                                       *)

core_map ==
    <<"link", "typed", "auto_bookmark", "auto_subframe", "manual_subframe",
      "generated", "auto_toplevel", "form_submit", "reload", "keyword",
      "keyword_generated">>

\* core_map.get(core, f"unknown_{core}")
CoreName(core) ==
    IF core + 1 \in DOMAIN core_map THEN core_map[core + 1]
    ELSE "unknown_" \o ToString(core)

\* The eight tests of the qualifier bits, in the order of the code; a mask
\* 0x01000000 << k is bit 24 + k.
qualifier_tests ==
    << <<24, "chain_start">>, <<25, "chain_end">>, <<26, "client_redirect">>,
       <<27, "server_redirect">>, <<28, "is_redirect">>,
       <<29, "from_address_bar">>, <<30, "home_page">>, <<31, "user_gesture">> >>

RECURSIVE QualifiersFrom(_, _, _)
QualifiersFrom(qualifiers, tests, bits) ==
    IF tests = <<>> THEN qualifiers
    ELSE QualifiersFrom(
            IF Head(tests)[1] \in bits
            THEN Append(qualifiers, Head(tests)[2]) ELSE qualifiers,
            Tail(tests), bits)

\* transition & 0x7F
core_of_transition_low7(bits) ==
    SumSeq([i \in 1..7 |-> IF (i - 1) \in bits THEN 2 ^ (i - 1) ELSE 0])

\* core = transition & 0xFF, as a number
core_of_transition(bits) ==
    SumSeq([i \in 1..8 |-> IF (i - 1) \in bits THEN 2 ^ (i - 1) ELSE 0])

\* The first two tests in the other order.
qualifiers_swapped(bits) ==
    QualifiersFrom(<<>>,
        <<qualifier_tests[2], qualifier_tests[1]>> \o SubSeq(qualifier_tests, 3, 8),
        bits)

\* The list after the eight tests.
qualifiers_of_transition(bits) == QualifiersFrom(<<>>, qualifier_tests, bits)

decode_transition(bits) ==
    [type |-> CoreName(core_of_transition(bits)),
     qualifiers |-> qualifiers_of_transition(bits)]

-----------------------------------------------------------------------------
(* chrome_time_to_datetime, datetime_to_chrome_time.                       *)
(*                                                                         *)
(* Both compute in doubles.  A double of magnitude in [2^e, 2^(e+1)) is a  *)
(* multiple of 2^(e-52), and every operation rounds its exact result to    *)
(* the nearest such multiple, ties to the even one.  For the instants from *)
(* 2004-01-10 to 2038-01-19 the magnitudes are fixed:                      *)
(*   - dt.timestamp(), seconds since 1970, lies in [2^30, 2^31);           *)
(*   - seconds since 1601 lie in [2^33, 2^34);                             *)
(*   - microseconds since 1601 lie in [2^53, 2^54).                        *)
(* The whole seconds are multiples of every grid involved, so only the     *)
(* part below the second is rounded, and it is kept as a numerator over    *)
(* the grid's power of two.                                                *)

\* 1_000_000
Million == 1000000

\* 11_644_473_600, the seconds from 1601-01-01 to 1970-01-01.
EpochOffset == <<11644, 473600>>

Big(n) == <<n \div Million, n % Million>>

BigAdd(a, b) ==
    LET units == a[2] + b[2]
    IN <<a[1] + b[1] + units \div Million, units % Million>>

\* a - b as an integer; the difference fits.
BigSub(a, b) == (a[1] - b[1]) * Million + (a[2] - b[2])

\* n / d rounded to the nearest integer, ties to even.
RoundHalfEven(n, d) ==
    LET q == n \div d
        r == n % d
    IN IF 2 * r < d THEN q
       ELSE IF 2 * r > d THEN q + 1
       ELSE IF q % 2 = 0 THEN q ELSE q + 1

\* The fraction bits of a double in [2^30, 2^31).
UnixSecondsFractionBits == 22

\* The fraction bits of a double in [2^33, 2^34).
ChromeSecondsFractionBits == 19

\* The spacing of the doubles in [2^53, 2^54).
ChromeMicrosSpacing == 2

\* The instants whose conversions have the magnitudes above.
InDoubleRange(dt) == dt.seconds >= 2 ^ 30

\* dt.timestamp(): the exact integer of microseconds divided by 10^6, in
\* [whole, frac] with frac counted in 2^-22 s.
timestamp(dt) ==
    LET n == RoundHalfEven(dt.micros * 2 ^ UnixSecondsFractionBits, Million)
    IN [whole |-> dt.seconds + n \div 2 ^ UnixSecondsFractionBits,
        frac |-> n % 2 ^ UnixSecondsFractionBits]

\* int((unix_ts + 11_644_473_600) * 1_000_000): the sum is rounded to
\* 2^-19 s, the product to an even number of microseconds, which int()
\* leaves as it is.  The result is [seconds, micros] for the integer
\* seconds * 10^6 + micros.
datetime_to_chrome_time(dt) ==
    LET unix_ts == timestamp(dt)
        shift == 2 ^ (UnixSecondsFractionBits - ChromeSecondsFractionBits)
        grid == 2 ^ ChromeSecondsFractionBits
        sum_n == RoundHalfEven(unix_ts.frac, shift)
        sum_whole == BigAdd(Big(unix_ts.whole + sum_n \div grid), EpochOffset)
        sum_frac == sum_n % grid
        micros == ChromeMicrosSpacing
                    * RoundHalfEven(sum_frac * Million, grid * ChromeMicrosSpacing)
    IN [seconds |-> BigAdd(sum_whole, Big(micros \div Million)),
        micros |-> micros % Million]

\* datetime.fromtimestamp((chrome_ts / 1_000_000) - 11_644_473_600, utc):
\* the quotient of the two integers is rounded to 2^-19 s, the difference is
\* exact, and fromtimestamp rounds the fraction times 10^6 to whole
\* microseconds, ties to even.
chrome_time_to_datetime(chrome_ts) ==
    LET grid == 2 ^ ChromeSecondsFractionBits
        quot_n == RoundHalfEven(chrome_ts.micros * grid, Million)
        quot_whole == BigAdd(chrome_ts.seconds, Big(quot_n \div grid))
        unix_whole == BigSub(quot_whole, EpochOffset)
        unix_frac == quot_n % grid
        us == RoundHalfEven(unix_frac * Million, grid)
    IN [seconds |-> unix_whole + us \div Million, micros |-> us % Million]

NoInstant == [seconds |-> 0, micros |-> 0]

NotConverted == [chrome_ts |-> [seconds |-> <<0, 0>>, micros |-> 0],
                 datetime |-> NoInstant]

-----------------------------------------------------------------------------
(* URLs: extract_domain, extract_search_query.                             *)

EmptyUrl == [kind |-> "empty", host |-> "", path |-> "", query |-> <<>>]

HttpUrl(host, path, query) ==
    [kind |-> "http", host |-> host, path |-> path, query |-> query]

MalformedUrl == [kind |-> "malformed", host |-> "[bad", path |-> "", query |-> <<>>]

\* urllib.parse.urlparse: raises ValueError on a malformed URL, otherwise
\* splits the string into its components.
urlparse(url) ==
    IF url.kind = "malformed" THEN [raised |-> TRUE, netloc |-> "", path |-> "", query |-> <<>>]
    ELSE [raised |-> FALSE, netloc |-> url.host, path |-> url.path, query |-> url.query]

\* try: urlparse(url).netloc.lower()  except Exception: ""
extract_domain(url) ==
    LET parsed == urlparse(url)
    IN IF parsed.raised THEN "" ELSE Lower(parsed.netloc)

engine_hosts ==
    << <<"www.google.com", "q">>, <<"google.com", "q">>, <<"www.bing.com", "q">>,
       <<"bing.com", "q">>, <<"duckduckgo.com", "q">>, <<"www.duckduckgo.com", "q">>,
       <<"search.brave.com", "q">>, <<"search.yahoo.com", "p">>, <<"yahoo.com", "p">> >>

\* parse_qs(query)[key], or <<>> when the key is missing: the values of the
\* key in order; parse_qs drops blank values.
ParamValues(query, key) ==
    LET kept == SelectSeq(query, LAMBDA kv : kv[1] = key /\ kv[2] # "")
    IN [i \in 1..Len(kept) |-> kept[i][2]]

\* The result is [raised, has, v]: raised when urlparse raises (the function
\* has no try), otherwise Some(query) or None.
extract_search_query(url) ==
    LET parsed == urlparse(url)
        host == Lower(parsed.netloc)
        path == Lower(parsed.path)
        e == KeyIndex(engine_hosts, host)
    IN IF parsed.raised THEN [raised |-> TRUE, has |-> FALSE, v |-> ""]
       ELSE IF e # 0 /\ (Contains(path, "search") \/ StartsWith(host, "duckduckgo"))
            THEN LET values == ParamValues(parsed.query, engine_hosts[e][2])
                 IN IF values # <<>>
                    THEN [raised |-> FALSE, has |-> TRUE, v |-> values[1]]
                    ELSE [raised |-> FALSE, has |-> FALSE, v |-> ""]
            ELSE [raised |-> FALSE, has |-> FALSE, v |-> ""]

NotExtracted == [called |-> FALSE, result |-> [raised |-> FALSE, has |-> FALSE, v |-> ""]]

-----------------------------------------------------------------------------
(* Export: query_history, build_records, group_by_date, build_daily_files, *)
(* build_aggregate, build_llm_input, main.                                 *)

TopDomainsCap == 20

TopUrlsCap == 50

TopQueriesCap == 50

LlmTopDomainsCap == 10

HoursPerDay == 24

DaysPerWeek == 7

weekday_names == <<"Mon", "Tue", "Wed", "Thu", "Fri", "Sat", "Sun">>

\* chrome_time_to_datetime(...).isoformat(): the date and the hour are what
\* the pipeline reads back from the timestamp string.
Timestamp(t) == [date |-> t \div HoursPerDay, hour |-> t % HoursPerDay]

\* WHERE v.visit_time >= ? ORDER BY v.visit_time ASC
query_history(rows, since) == SelectSeq(rows, LAMBDA r : r.visit_time >= since)

build_record(r) ==
    LET d == decode_transition(r.transition)
    IN [url |-> r.url,
        title |-> r.title,
        timestamp |-> Timestamp(r.visit_time),
        domain |-> extract_domain(r.url),
        transition_type |-> d.type,
        transition_qualifiers |-> d.qualifiers,
        transition_raw |-> r.transition,
        visit_time_raw |-> r.visit_time]

\* One record per row, in the order of the rows.
build_records(rows) == [i \in 1..Len(rows) |-> build_record(rows[i])]

\* by_date[date] is the subsequence of the records of that date.
group_by_date(records) ==
    [d \in {records[i].timestamp.date : i \in 1..Len(records)} |->
        SelectSeq(records, LAMBDA r : r.timestamp.date = d)]

\* len({v["url"] for v in visits}): the empty url is an element like another.
UrlSetSize(visits) == Cardinality({visits[i].url : i \in 1..Len(visits)})

\* The files build_daily_files writes, one per date.
build_daily_files(by_date) ==
    [d \in DOMAIN by_date |->
        [date |-> d,
         total_visits |-> Len(by_date[d]),
         unique_urls |-> UrlSetSize(by_date[d]),
         visits |-> by_date[d]]]

export_daily_summary(by_date) ==
    LET dates == SortedInts(DOMAIN by_date)
    IN [i \in 1..Len(dates) |->
          [date |-> dates[i],
           visits |-> Len(by_date[dates[i]]),
           unique_urls |-> UrlSetSize(by_date[dates[i]])]]

hourly_distribution(records) ==
    [h \in 1..HoursPerDay |->
        Cardinality({i \in 1..Len(records) : records[i].timestamp.hour = h - 1})]

\* 1601-01-01, day 0, was a Monday: datetime.weekday() is date % 7.
weekday_distribution(records) ==
    [n \in 1..DaysPerWeek |->
        <<weekday_names[n],
          Cardinality({i \in 1..Len(records) :
                          records[i].timestamp.date % DaysPerWeek = n - 1})>>]

TitlePairs(records) ==
    LET kept == SelectSeq(records, LAMBDA r : r.url.kind # "empty" /\ r.title # "")
    IN [i \in 1..Len(kept) |-> <<kept[i].url, kept[i].title>>]

url_to_title_last(records) == DictOfLast(TitlePairs(records))

\* url_to_title.setdefault(url, title) over the records with a url and a title
url_to_title_of(records) == DictOfFirst(TitlePairs(records))

domain_counts_of(records) ==
    LET kept == SelectSeq(records, LAMBDA r : r.domain # "")
    IN CounterOf([i \in 1..Len(kept) |-> kept[i].domain])

url_counts_of(records) ==
    LET kept == SelectSeq(records, LAMBDA r : r.url.kind # "empty")
    IN CounterOf([i \in 1..Len(kept) |-> kept[i].url])

\* extract_search_query(r["url"]) for r in records
QueryResults(records) ==
    SelectSeq([i \in 1..Len(records) |-> extract_search_query(records[i].url)],
              LAMBDA q : TRUE)

\* Counter(q for q in (extract_search_query(r["url"]) for r in records) if q)
search_queries_of(records) ==
    LET kept == SelectSeq(QueryResults(records), LAMBDA q : q.has /\ q.v # "")
    IN CounterOf([i \in 1..Len(kept) |-> kept[i].v])

\* build_aggregate raises when extract_search_query raises on some record.
build_aggregate_raises(records) ==
    LET results == QueryResults(records)
    IN \E i \in 1..Len(results) : results[i].raised

build_aggregate(records, by_date, period_start, period_end) ==
    LET top_d == MostCommon(domain_counts_of(records), TopDomainsCap)
        top_u == MostCommon(url_counts_of(records), TopUrlsCap)
        titles == url_to_title_of(records)
        top_q == MostCommon(search_queries_of(records), TopQueriesCap)
    IN [period |-> <<Timestamp(period_start).date, Timestamp(period_end).date>>,
        total_visits |-> Len(records),
        unique_urls |-> UrlSetSize(records),
        top_domains |-> [i \in 1..Len(top_d) |->
                            [domain |-> top_d[i][1], visit_count |-> top_d[i][2]]],
        top_urls |-> [i \in 1..Len(top_u) |->
                            [url |-> top_u[i][1], visit_count |-> top_u[i][2],
                             title |-> DictGet(titles, top_u[i][1])]],
        daily_summary |-> export_daily_summary(by_date),
        hourly_distribution |-> hourly_distribution(records),
        weekday_distribution |-> weekday_distribution(records),
        top_search_queries |-> [i \in 1..Len(top_q) |->
                            [query |-> top_q[i][1], count |-> top_q[i][2]]]]

\* build_llm_input: urls and titles are list(set(...)), whose order Python
\* leaves open, so they are sets here.
build_llm_input(by_date) ==
    LET dates == SortedInts(DOMAIN by_date)
    IN [i \in 1..Len(dates) |->
          LET visits == by_date[dates[i]]
              top == MostCommon(domain_counts_of(visits), LlmTopDomainsCap)
          IN [date |-> dates[i],
              urls_visited |-> {visits[k].url : k \in 1..Len(visits)} \ {EmptyUrl},
              titles |-> {visits[k].title : k \in 1..Len(visits)} \ {""},
              top_domains |-> [k \in 1..Len(top) |-> top[k][1]]]]

-----------------------------------------------------------------------------
(* Files and directories.                                                  *)

\* A source directory before any export: no daily directory, no aggregate
\* file, no llm_input.json.
EmptySourceDir ==
    [daily |-> [exists |-> FALSE, files |-> <<>>],
     aggregates |-> <<>>,
     llm |-> [exists |-> FALSE, data |-> <<>>]]

EmptyMergeDir ==
    [daily |-> <<>>,
     aggregate |-> [exists |-> FALSE, data |-> <<>>],
     llm |-> [exists |-> FALSE, data |-> <<>>]]

\* load_json(path): path.read_text raises when the file does not exist.
load_json(file) == [raised |-> ~file.exists, data |-> file.data]

\* The decimal digits of a file name's number, followed by 10 for the letter
\* that follows the number in the name ("w" sorts after every digit).
RECURSIVE Digits(_)
Digits(n) == IF n < 10 THEN <<n>> ELSE Append(Digits(n \div 10), n % 10)

RECURSIVE LexLess(_, _)
LexLess(a, b) ==
    IF a = <<>> THEN b # <<>>
    ELSE IF b = <<>> THEN FALSE
    ELSE IF Head(a) # Head(b) THEN Head(a) < Head(b)
    ELSE LexLess(Tail(a), Tail(b))

NameKey(weeks) == Append(Digits(weeks), 10)

\* sorted(source_dir.glob("aggregate_*weeks.json")): by file name, as strings.
RECURSIVE SortedByName(_)
SortedByName(S) ==
    IF S = {} THEN <<>>
    ELSE LET m == CHOOSE x \in S :
                    \A y \in S \ {x} : LexLess(NameKey(x), NameKey(y))
         IN <<m>> \o SortedByName(S \ {m})

-----------------------------------------------------------------------------
(* Merge: merge_daily, merge_aggregate, merge_llm_input, main.             *)

\* The dict main builds from --sources: a repeated name keeps its first place.
RECURSIVE SourcesDict(_)
SourcesDict(names) ==
    IF names = <<>> THEN <<>>
    ELSE LET rest == SourcesDict(SubSeq(names, 1, Len(names) - 1))
             last == names[Len(names)]
         IN IF last \in Range(rest) THEN rest ELSE Append(rest, last)

\* v["source"] = source_name
Tagged(visits, source_name) ==
    [i \in 1..Len(visits) |->
        [url |-> visits[i].url,
         title |-> visits[i].title,
         timestamp |-> visits[i].timestamp,
         domain |-> visits[i].domain,
         transition_type |-> visits[i].transition_type,
         transition_qualifiers |-> visits[i].transition_qualifiers,
         transition_raw |-> visits[i].transition_raw,
         visit_time_raw |-> visits[i].visit_time_raw,
         source |-> source_name]]

\* by_date after the loop over the sources: per date, the tagged visits of the
\* sources' files for that date, in the order of the sources.
RECURSIVE MergeByDateFrom(_, _, _)
MergeByDateFrom(by_date, sources, dk) ==
    IF sources = <<>> THEN by_date
    ELSE LET s == Head(sources)
             files == dk[s].daily.files
             next ==
                IF ~dk[s].daily.exists THEN by_date
                ELSE [d \in DOMAIN by_date \cup DOMAIN files |->
                        (IF d \in DOMAIN by_date THEN by_date[d] ELSE <<>>)
                        \o (IF d \in DOMAIN files
                            THEN Tagged(files[d].visits, s) ELSE <<>>)]
         IN MergeByDateFrom(next, Tail(sources), dk)

merge_by_date(sources, dk) == MergeByDateFrom(<<>>, sources, dk)

\* The distinct non-empty urls counted per source.
NonEmptyUrlSetSizePerSource(visits) ==
    Cardinality({<<visits[i].url, visits[i].source>> : i \in 1..Len(visits)}
                \ ({EmptyUrl} \X SourceNames))

\* len({v.get("url") for v in visits if v.get("url")})
NonEmptyUrlSetSize(visits) ==
    Cardinality({visits[i].url : i \in 1..Len(visits)} \ {EmptyUrl})

merge_daily_summary(by_date) ==
    LET dates == SortedInts(DOMAIN by_date)
    IN [i \in 1..Len(dates) |->
          [date |-> dates[i],
           visits |-> Len(by_date[dates[i]]),
           unique_urls |-> NonEmptyUrlSetSize(by_date[dates[i]])]]

\* The per-date files merge_daily writes.
merge_daily_files(by_date) ==
    [d \in DOMAIN by_date |->
        [date |-> d,
         total_visits |-> Len(by_date[d]),
         unique_urls |-> NonEmptyUrlSetSize(by_date[d]),
         visits |-> by_date[d]]]

\* The aggregate files merge_aggregate reads, in the order it reads them.
RECURSIVE AggregateFiles(_, _)
AggregateFiles(sources, dk) ==
    IF sources = <<>> THEN <<>>
    ELSE LET files == dk[Head(sources)].aggregates
             names == SortedByName(DOMAIN files)
         IN [i \in 1..Len(names) |-> files[names[i]]]
            \o AggregateFiles(Tail(sources), dk)

\* The concatenation of a sequence of sequences.
RECURSIVE Concat(_)
Concat(ss) == IF ss = <<>> THEN <<>> ELSE Head(ss) \o Concat(Tail(ss))

\* merge_aggregate's accumulators after the loop over the aggregate files.
\* total_visits += data["total_visits"]
merged_total_visits(files) == SumSeq([f \in 1..Len(files) |-> files[f].total_visits])

\* domain_counts[item["domain"]] += item["visit_count"]
merged_domain_counts(files) ==
    LET items == Concat([f \in 1..Len(files) |-> files[f].top_domains])
    IN CounterOfPairs([i \in 1..Len(items) |-> <<items[i].domain, items[i].visit_count>>])

\* The items of the top_urls lists that pass "if url:".
merged_url_items(files) ==
    SelectSeq(Concat([f \in 1..Len(files) |-> files[f].top_urls]),
              LAMBDA item : item.url.kind # "empty")

\* url_counts[url] += item["visit_count"]
merged_url_counts(files) ==
    LET items == merged_url_items(files)
    IN CounterOfPairs([i \in 1..Len(items) |-> <<items[i].url, items[i].visit_count>>])

\* if item.get("title"): url_to_title.setdefault(url, item["title"])
merged_url_to_title(files) ==
    LET items == SelectSeq(merged_url_items(files),
                           LAMBDA item : item.title.has /\ item.title.v # "")
    IN DictOfFirst([i \in 1..Len(items) |-> <<items[i].url, items[i].title.v>>])

\* unique_urls.add(url)
merged_unique_urls(files) ==
    LET items == merged_url_items(files)
    IN {items[i].url : i \in 1..Len(items)}

\* hourly[i] += v
merged_hourly(files) ==
    [h \in 1..HoursPerDay |->
        SumSeq([f \in 1..Len(files) |-> files[f].hourly_distribution[h]])]

\* weekday_counts[day] += count
merged_weekday_counts(files) ==
    CounterOfPairs(Concat([f \in 1..Len(files) |-> files[f].weekday_distribution]))

\* if query: top_search_queries[query] += item["count"]
merged_search_queries(files) ==
    LET items == SelectSeq(Concat([f \in 1..Len(files) |-> files[f].top_search_queries]),
                           LAMBDA item : item.query # "")
    IN CounterOfPairs([i \in 1..Len(items) |-> <<items[i].query, items[i].count>>])

merge_aggregate(sources, dk, daily_summary) ==
    LET files == AggregateFiles(sources, dk)
        top_d == MostCommon(merged_domain_counts(files), TopDomainsCap)
        top_u == MostCommon(merged_url_counts(files), TopUrlsCap)
        titles == merged_url_to_title(files)
        top_q == MostCommon(merged_search_queries(files), TopQueriesCap)
    IN [periods |-> [f \in 1..Len(files) |-> files[f].period],
        total_visits |-> merged_total_visits(files),
        unique_urls |-> Cardinality(merged_unique_urls(files)),
        top_domains |-> [i \in 1..Len(top_d) |->
                            [domain |-> top_d[i][1], visit_count |-> top_d[i][2]]],
        top_urls |-> [i \in 1..Len(top_u) |->
                            [url |-> top_u[i][1], visit_count |-> top_u[i][2],
                             title |-> DictGet(titles, top_u[i][1])]],
        daily_summary |-> daily_summary,
        hourly_distribution |-> merged_hourly(files),
        weekday_distribution |-> merged_weekday_counts(files),
        top_search_queries |-> [i \in 1..Len(top_q) |->
                            [query |-> top_q[i][1], count |-> top_q[i][2]]]]

\* The sources whose llm_input.json merge_llm_input loads: the others are
\* skipped by the exists() test.
llm_sources_unchecked(sources, dk) == sources

llm_sources(sources, dk) == SelectSeq(sources, LAMBDA s : dk[s].llm.exists)

RECURSIVE LlmEntries(_, _)
LlmEntries(sources, dk) ==
    IF sources = <<>> THEN <<>>
    ELSE load_json(dk[Head(sources)].llm).data \o LlmEntries(Tail(sources), dk)

merge_llm_input_raises(sources, dk) ==
    \E i \in 1..Len(llm_sources(sources, dk)) :
        load_json(dk[llm_sources(sources, dk)[i]].llm).raised

merge_llm_input(sources, dk) ==
    \* per date: the union of the urls, the union of the titles, and a Counter
    \* of the domains the sources list for it
    LET entries == LlmEntries(llm_sources(sources, dk), dk)
        dates == SortedInts({entries[i].date : i \in 1..Len(entries)})
    IN [i \in 1..Len(dates) |->
          LET mine == SelectSeq(entries, LAMBDA e : e.date = dates[i])
              \* by_date[date]["domains"][domain] += 1 for every listed domain
              top == MostCommon(
                        CounterOf(Concat([k \in 1..Len(mine) |-> mine[k].top_domains])),
                        LlmTopDomainsCap)
          IN [date |-> dates[i],
              urls_visited |-> UNION {mine[k].urls_visited : k \in 1..Len(mine)},
              titles |-> UNION {mine[k].titles : k \in 1..Len(mine)},
              top_domains |-> [k \in 1..Len(top) |-> top[k][1]]]]

-----------------------------------------------------------------------------
(* The two programs.                                                       *)

HoursPerWeek == 168

\* main of export_vivaldi_history.py over the rows of one history database,
\* into the directory dir, at time clock: the directory afterwards and the
\* exit status.  An exception that nothing catches ends the run with status 1
\* after the daily files were written and before the aggregate is.
ExportRun(rows, dir, weeks, clock) ==
    IF weeks <= 0 THEN [dir |-> dir, exit |-> 2]
    ELSE
      LET period_end == clock
          period_start == clock - weeks * HoursPerWeek
          records == build_records(query_history(rows, period_start))
          by_date == group_by_date(records)
          withDaily ==
            [dir EXCEPT !.daily =
                [exists |-> TRUE,
                 files |-> Overwrite(dir.daily.files, build_daily_files(by_date))]]
      IN IF build_aggregate_raises(records)
         THEN [dir |-> withDaily, exit |-> 1]
         ELSE [dir |->
                 [withDaily EXCEPT
                    !.aggregates =
                        Overwrite(@, [w \in {weeks} |->
                            build_aggregate(records, by_date, period_start, period_end)]),
                    !.llm = [exists |-> TRUE, data |-> build_llm_input(by_date)]],
               exit |-> 0]

\* A merge that starts by_date from the files already in merge/daily.
MergeRunAppending(names, dk, md) ==
    LET sources == SourcesDict(names)
        by_date == MergeByDateFrom([d \in DOMAIN md.daily |-> md.daily[d].visits],
                                   sources, dk)
        daily_summary == merge_daily_summary(by_date)
    IN [dir |->
          [daily |-> Overwrite(md.daily, merge_daily_files(by_date)),
           aggregate |-> [exists |-> TRUE,
                          data |-> merge_aggregate(sources, dk, daily_summary)],
           llm |-> [exists |-> TRUE, data |-> merge_llm_input(sources, dk)]],
        exit |-> 0]

\* main of merge_timeline_data.py over the named sources: the merge directory
\* afterwards and the exit status.
MergeRun(names, dk, md) ==
    LET sources == SourcesDict(names)
        by_date == merge_by_date(sources, dk)
        daily_summary == merge_daily_summary(by_date)
        withAggregate ==
            [md EXCEPT
                !.daily = Overwrite(@, merge_daily_files(by_date)),
                !.aggregate = [exists |-> TRUE,
                               data |-> merge_aggregate(sources, dk, daily_summary)]]
    IN IF merge_llm_input_raises(sources, dk)
       THEN [dir |-> withAggregate, exit |-> 1]
       ELSE [dir |-> [withAggregate EXCEPT
                        !.llm = [exists |-> TRUE,
                                 data |-> merge_llm_input(sources, dk)]],
             exit |-> 0]

-----------------------------------------------------------------------------
(* Inputs.                                                                 *)

\* Bounds of the model.
MaxRows == 2

MaxCrawlRows == 1

MaxRuns == 3

\* Choices of --sources.
SourceLists == {<<"vivaldi", "chrome">>, <<"chrome", "vivaldi">>, <<"vivaldi">>}

\* Choices of --weeks.
WeeksInputs == {1, 3}

ExampleUrl == HttpUrl("Example.com", "/", <<>>)

SearchUrl == HttpUrl("search.brave.com", "/search", << <<"q", "rust">> >>)

\* The visits a history is made of: url, title, transition.
VisitInputs ==
    { [url |-> ExampleUrl, title |-> "T1", transition |-> {}],
      [url |-> ExampleUrl, title |-> "T2", transition |-> {3, 24, 31}],
      [url |-> ExampleUrl, title |-> "", transition |-> {0}],
      [url |-> SearchUrl, title |-> "rust", transition |-> {0, 1, 3, 29}],
      [url |-> MalformedUrl, title |-> "T1", transition |-> {0}],
      [url |-> EmptyUrl, title |-> "T1", transition |-> {1}] }

\* The hour of the first visit of a history (a Monday), and the hours
\* between two visits.
FirstVisit == 4 * HoursPerWeek

VisitGap == 100

\* A browsing session over many sites, or of many searches, all in one hour:
\* one more distinct domain (url, query) than the aggregate keeps, the last
\* of them the url the single visits go to.
CrawlRows(kind) ==
    CASE kind = "sites" ->
           [i \in 1..(TopDomainsCap + 1) |->
              [url |-> IF i <= TopDomainsCap
                       THEN HttpUrl("site" \o ToString(i) \o ".example", "/", <<>>)
                       ELSE ExampleUrl,
               title |-> "Site", visit_time |-> FirstVisit, transition |-> {}]]
      [] kind = "searches" ->
           [i \in 1..(TopQueriesCap + 1) |->
              [url |-> IF i <= TopQueriesCap
                       THEN HttpUrl("search.brave.com", "/search",
                                    << <<"q", "term" \o ToString(i)>> >>)
                       ELSE SearchUrl,
               title |-> "", visit_time |-> FirstVisit, transition |-> {0}]]
      [] OTHER -> <<>>

CrawlInputs == {"none", "sites", "searches"}

VisitRows(visits) ==
    [i \in 1..Len(visits) |->
        [url |-> visits[i].url, title |-> visits[i].title,
         visit_time |-> FirstVisit + (i - 1) * VisitGap,
         transition |-> visits[i].transition]]

VisitSeqs(n) == UNION {[1..k -> VisitInputs] : k \in 0..n}

\* Per browser the single visits, at most n in all, chrome's after the crawl.
Histories(crawl, n) ==
    { [s \in SourceNames |->
          IF s = "vivaldi" THEN VisitRows(v[1])
          ELSE CrawlRows(crawl) \o VisitRows(v[2])] :
      v \in {y \in VisitSeqs(n) \X VisitSeqs(n) : Len(y[1]) + Len(y[2]) <= n} }

\* The histories: without a crawl at most MaxRows single visits, with a crawl
\* at most MaxCrawlRows.
HistoryInputs ==
    Histories("none", MaxRows)
    \cup UNION {Histories(crawl, MaxCrawlRows) : crawl \in CrawlInputs \ {"none"}}

\* The time of the runs: after the last visit.
StartTime == FirstVisit + MaxRows * VisitGap

\* lastRun before any run.  clock is the time of the run; again tells that the
\* run before it was the same program with the same arguments.
NoRun == [program |-> "none", source |-> "", weeks |-> 0, sources |-> <<>>,
          clock |-> 0, exit |-> 0, again |-> FALSE]

-----------------------------------------------------------------------------
(* The pipeline as a state machine.                                        *)

Init ==
    /\ history \in HistoryInputs
    /\ now = StartTime
    /\ disk = [s \in SourceNames |-> EmptySourceDir]
    /\ mergeDir = EmptyMergeDir
    /\ lastRun = NoRun
    /\ runs = 0
    /\ transition = {}
    /\ decoded = [type |-> "", qualifiers |-> <<>>]
    /\ instant = NoInstant
    /\ roundTrip = NotConverted
    /\ queryUrl = EmptyUrl
    /\ queryResult = NotExtracted

\* export_vivaldi_history.py --weeks weeks --output-dir timeline_data/<s>
Export(s, weeks) ==
    /\ runs < MaxRuns
    /\ LET run == ExportRun(history[s], disk[s], weeks, now)
       IN /\ disk' = [disk EXCEPT ![s] = run.dir]
          /\ lastRun' = [program |-> "export", source |-> s, weeks |-> weeks,
                         sources |-> <<>>, clock |-> now, exit |-> run.exit,
                         again |-> (lastRun.program = "export" /\ lastRun.source = s
                                    /\ lastRun.weeks = weeks)]
    /\ runs' = runs + 1
    /\ UNCHANGED <<history, now, mergeDir, transition, decoded>>
    /\ UNCHANGED <<instant, roundTrip, queryUrl, queryResult>>

\* merge_timeline_data.py --sources names
Merge(names) ==
    /\ runs < MaxRuns
    /\ LET run == MergeRun(names, disk, mergeDir)
       IN /\ mergeDir' = run.dir
          /\ lastRun' = [program |-> "merge", source |-> "", weeks |-> 0,
                         sources |-> names, clock |-> now, exit |-> run.exit,
                         again |-> (lastRun.program = "merge"
                                    /\ lastRun.sources = names)]
    /\ runs' = runs + 1
    /\ UNCHANGED <<history, now, disk, transition, decoded>>
    /\ UNCHANGED <<instant, roundTrip, queryUrl, queryResult>>

Next ==
    \/ \E s \in SourceNames, weeks \in WeeksInputs : Export(s, weeks)
    \/ \E names \in SourceLists : Merge(names)

Spec == Init /\ [][Next]_vars

-----------------------------------------------------------------------------
(* decode_transition over the 32-bit values.                               *)

Bits(S) == SUBSET S

CoreBits == 0..7

MiddleBits == 8..23

QualifierBits == 24..31

\* Every core under every setting of the qualifier bits, the middle bits all
\* clear or all set.
TransitionInputs ==
    {c \cup m \cup q : c \in Bits(CoreBits), m \in {{}, MiddleBits}, q \in Bits(QualifierBits)}

NotDecoded == [type |-> "", qualifiers |-> <<>>]

InitDecode ==
    /\ transition \in TransitionInputs
    /\ decoded = NotDecoded
    /\ history = [s \in SourceNames |-> <<>>]
    /\ now = 0
    /\ disk = [s \in SourceNames |-> EmptySourceDir]
    /\ mergeDir = EmptyMergeDir
    /\ lastRun = NoRun
    /\ runs = 0
    /\ instant = NoInstant
    /\ roundTrip = NotConverted
    /\ queryUrl = EmptyUrl
    /\ queryResult = NotExtracted

Decode ==
    /\ decoded = NotDecoded
    /\ decoded' = decode_transition(transition)
    /\ UNCHANGED <<transition, history, now, disk, mergeDir, lastRun, runs>>
    /\ UNCHANGED <<instant, roundTrip, queryUrl, queryResult>>

NextDecode == Decode

SpecDecode == InitDecode /\ [][NextDecode]_vars

-----------------------------------------------------------------------------
(* The timestamp conversions over instants.                                *)

MaxMicros == 40

\* 2004-01-10T13:37:04Z, 2024-01-01T00:00:00Z, 2033-05-18T03:33:20Z
SecondsInputs == {2 ^ 30, 1704067200, 2000000000}

InstantInputs == [seconds : SecondsInputs, micros : 0..MaxMicros]

InitTime ==
    /\ instant \in InstantInputs
    /\ roundTrip = NotConverted
    /\ transition = {}
    /\ decoded = NotDecoded
    /\ queryUrl = EmptyUrl
    /\ queryResult = NotExtracted
    /\ history = [s \in SourceNames |-> <<>>]
    /\ now = 0
    /\ disk = [s \in SourceNames |-> EmptySourceDir]
    /\ mergeDir = EmptyMergeDir
    /\ lastRun = NoRun
    /\ runs = 0

\* chrome_time_to_datetime(datetime_to_chrome_time(instant))
Convert ==
    /\ roundTrip = NotConverted
    /\ InDoubleRange(instant)
    /\ LET chrome_ts == datetime_to_chrome_time(instant)
       IN roundTrip' = [chrome_ts |-> chrome_ts,
                        datetime |-> chrome_time_to_datetime(chrome_ts)]
    /\ UNCHANGED <<instant, transition, decoded, queryUrl, queryResult>>
    /\ UNCHANGED <<history, now, disk, mergeDir, lastRun, runs>>

NextTime == Convert

SpecTime == InitTime /\ [][NextTime]_vars

-----------------------------------------------------------------------------
(* extract_search_query over urls.                                         *)

MaxParams == 2

\* The hosts of the engine table, one of them in capitals, and three hosts
\* that are not in the table.
HostInputs ==
    {engine_hosts[i][1] : i \in 1..Len(engine_hosts)}
        \cup {"WWW.Google.com", "Example.com", "duckduckgo.com.example", "news.yahoo.com"}

PathInputs == {"", "/", "/search", "/Search", "/html/", "/websearch/results"}

ParamInputs == {<<"q", "rust">>, <<"q", "go">>, <<"q", "">>, <<"p", "tla">>, <<"t", "h_">>}

QueryInputs == UNION {[1..n -> ParamInputs] : n \in 0..MaxParams}

QueryUrlInputs ==
    {HttpUrl(h, p, q) : h \in HostInputs, p \in PathInputs, q \in QueryInputs}
        \cup {MalformedUrl, EmptyUrl}

InitQuery ==
    /\ queryUrl \in QueryUrlInputs
    /\ queryResult = NotExtracted
    /\ instant = NoInstant
    /\ roundTrip = NotConverted
    /\ transition = {}
    /\ decoded = NotDecoded
    /\ history = [s \in SourceNames |-> <<>>]
    /\ now = 0
    /\ disk = [s \in SourceNames |-> EmptySourceDir]
    /\ mergeDir = EmptyMergeDir
    /\ lastRun = NoRun
    /\ runs = 0

ExtractQuery ==
    /\ ~queryResult.called
    /\ queryResult' = [called |-> TRUE, result |-> extract_search_query(queryUrl)]
    /\ UNCHANGED <<queryUrl, instant, roundTrip, transition, decoded>>
    /\ UNCHANGED <<history, now, disk, mergeDir, lastRun, runs>>

NextQuery == ExtractQuery

SpecQuery == InitQuery /\ [][NextQuery]_vars

-----------------------------------------------------------------------------
(* Claims about the export, under Spec.                                    *)

\* The last run was an export that wrote its aggregate.
Exported == lastRun.program = "export" /\ lastRun.exit = 0

\* The rows the last export read, and the aggregate it wrote.
ExportedRows ==
    SelectSeq(history[lastRun.source],
              LAMBDA r : r.visit_time >= lastRun.clock - lastRun.weeks * HoursPerWeek)

ExportedAggregate == disk[lastRun.source].aggregates[lastRun.weeks]

\* The keys a ranking counts, one per row that has one, in the order of the rows.
DomainKeys(rows) ==
    LET kept == SelectSeq(rows, LAMBDA r : extract_domain(r.url) # "")
    IN [i \in 1..Len(kept) |-> extract_domain(kept[i].url)]

UrlKeys(rows) ==
    LET kept == SelectSeq(rows, LAMBDA r : r.url # EmptyUrl)
    IN [i \in 1..Len(kept) |-> kept[i].url]

QueryKeys(rows) ==
    LET kept == SelectSeq(rows, LAMBDA r : extract_search_query(r.url).has)
    IN [i \in 1..Len(kept) |-> extract_search_query(kept[i].url).v]

Occurrences(keys, k) == Cardinality({i \in 1..Len(keys) : keys[i] = k})

FirstOccurrence(keys, k) ==
    CHOOSE i \in 1..Len(keys) : keys[i] = k /\ \A j \in 1..(i - 1) : keys[j] # k

\* k ranks before m: more occurrences, or as many and seen first.
RanksBefore(keys, k, m) ==
    \/ Occurrences(keys, k) > Occurrences(keys, m)
    \/ /\ Occurrences(keys, k) = Occurrences(keys, m)
       /\ FirstOccurrence(keys, k) < FirstOccurrence(keys, m)

\* ranked, a sequence of <<key, count>>, is the first cap entries of the
\* ranking of the keys by descending count, ties by first occurrence.
IsTopOf(ranked, keys, cap) ==
    /\ Len(ranked) = Min(cap, Cardinality(Range(keys)))
    /\ \A i \in 1..Len(ranked) :
          /\ ranked[i][1] \in Range(keys)
          /\ ranked[i][2] = Occurrences(keys, ranked[i][1])
    /\ \A i \in 1..(Len(ranked) - 1) : RanksBefore(keys, ranked[i][1], ranked[i + 1][1])
    /\ \A k \in Range(keys) \ {ranked[i][1] : i \in 1..Len(ranked)} :
          Len(ranked) > 0 /\ RanksBefore(keys, ranked[Len(ranked)][1], k)

\* C6: top_domains, top_urls and top_search_queries of build_aggregate are in
\* descending order of count, equal counts in the order of first occurrence in
\* the records, and hold exactly the first 20 / 50 / 50 entries of that ranking.
C6_RankingAndCaps ==
    Exported =>
        LET agg == ExportedAggregate
            rows == ExportedRows
        IN /\ IsTopOf([i \in 1..Len(agg.top_domains) |->
                          <<agg.top_domains[i].domain, agg.top_domains[i].visit_count>>],
                      DomainKeys(rows), 20)
           /\ IsTopOf([i \in 1..Len(agg.top_urls) |->
                          <<agg.top_urls[i].url, agg.top_urls[i].visit_count>>],
                      UrlKeys(rows), 50)
           /\ IsTopOf([i \in 1..Len(agg.top_search_queries) |->
                          <<agg.top_search_queries[i].query, agg.top_search_queries[i].count>>],
                      QueryKeys(rows), 50)

\* 21 domains, the one seen last visited twice: it ranks first, the others
\* follow in the order seen, and the cap drops the twentieth of them.
C6_Witness ==
    /\ Exported
    /\ Cardinality(Range(DomainKeys(ExportedRows))) = 21
    /\ Len(ExportedAggregate.top_domains) = 20
    /\ ExportedAggregate.top_domains[1] = [domain |-> "example.com", visit_count |-> 2]
    /\ ExportedAggregate.top_domains[2] = [domain |-> "site1.example", visit_count |-> 1]
    /\ ExportedAggregate.top_domains[20] = [domain |-> "site19.example", visit_count |-> 1]

\* C7: the title of a top_urls entry is the first non-empty title among the
\* rows of its url, and None only when no row of the url has a title.
C7_FirstTitleWins ==
    Exported =>
        LET rows == ExportedRows
            top == ExportedAggregate.top_urls
        IN \A i \in 1..Len(top) :
             LET titled == {k \in 1..Len(rows) :
                               rows[k].url = top[i].url /\ rows[k].title # ""}
             IN IF titled = {} THEN top[i].title = None
                ELSE top[i].title =
                        Some(rows[CHOOSE k \in titled : \A m \in titled : k <= m].title)

\* A url with the titles "T1" and then "T2" carries "T1".
C7_Witness ==
    /\ Exported
    /\ \E i \in 1..Len(ExportedAggregate.top_urls) :
          /\ ExportedAggregate.top_urls[i].title = Some("T1")
          /\ \E k \in 1..Len(ExportedRows) :
                /\ ExportedRows[k].url = ExportedAggregate.top_urls[i].url
                /\ ExportedRows[k].title = "T2"

\* C8: a malformed URL never aborts processing: the export of rows that hold
\* one completes, with one record per row, that of the malformed url with the
\* domain "".
C8_MalformedUrlNeverAborts ==
    (lastRun.program = "export" /\ \E k \in 1..Len(ExportedRows) :
                                      ExportedRows[k].url.kind = "malformed")
    => /\ lastRun.exit = 0
       /\ LET files == disk[lastRun.source].daily.files
              rows == ExportedRows
          IN \A k \in 1..Len(rows) :
               LET d == rows[k].visit_time \div 24
               IN /\ d \in DOMAIN files
                  /\ Len(files[d].visits) =
                        Cardinality({m \in 1..Len(rows) : rows[m].visit_time \div 24 = d})
                  /\ \A m \in 1..Len(files[d].visits) :
                        files[d].visits[m].url.kind = "malformed"
                        => files[d].visits[m].domain = ""

\* The rows of the last export that fall on date d.
ExportedRowsOn(d) == SelectSeq(ExportedRows, LAMBDA r : r.visit_time \div HoursPerDay = d)

ExportedDates == {ExportedRows[k].visit_time \div HoursPerDay : k \in 1..Len(ExportedRows)}

\* The distinct non-empty urls among rows.
DistinctNonEmptyUrls(rows) == {rows[k].url : k \in 1..Len(rows)} \ {EmptyUrl}

\* C12: for every date the export produces, in the per-date file and in the
\* aggregate's daily_summary, visits is the number of records of that date
\* and unique_urls the number of distinct non-empty urls among them: a record
\* with the empty url adds to visits and never to unique_urls.
C12_ExportDailyCounts ==
    (lastRun.program = "export" /\ lastRun.weeks > 0) =>
        LET files == disk[lastRun.source].daily.files
        IN /\ \A d \in ExportedDates :
                /\ d \in DOMAIN files
                /\ files[d].total_visits = Len(ExportedRowsOn(d))
                /\ Len(files[d].visits) = Len(ExportedRowsOn(d))
                /\ files[d].unique_urls =
                      Cardinality(DistinctNonEmptyUrls(ExportedRowsOn(d)))
           /\ lastRun.exit = 0 =>
                LET summary == ExportedAggregate.daily_summary
                IN /\ {summary[i].date : i \in 1..Len(summary)} = ExportedDates
                   /\ \A i \in 1..Len(summary) :
                        /\ summary[i].visits = Len(ExportedRowsOn(summary[i].date))
                        /\ summary[i].unique_urls =
                              Cardinality(DistinctNonEmptyUrls(
                                              ExportedRowsOn(summary[i].date)))

-----------------------------------------------------------------------------
(* Claims about the merge, under Spec.  The sources' files are what they   *)
(* were when the last merge read them: only an export changes them, and    *)
(* after an export lastRun is no merge.                                    *)

Merged == lastRun.program = "merge"

\* The sources the last merge was run over.
MergedSources == SourcesDict(lastRun.sources)

\* The visit records of a source: those of its per-date files.
SourceRecords(s) ==
    LET files == disk[s].daily.files
        dates == SortedInts(DOMAIN files)
    IN Concat([i \in 1..Len(dates) |-> files[dates[i]].visits])

SourceRecordsOn(s, d) ==
    IF d \in DOMAIN disk[s].daily.files THEN disk[s].daily.files[d].visits ELSE <<>>

NonEmptyUrls(records) == {records[i].url : i \in 1..Len(records)} \ {EmptyUrl}

\* No history holds a malformed url, so that every export completes.
NoMalformedUrl ==
    \A s \in SourceNames : \A k \in 1..Len(history[s]) :
        history[s][k].url.kind # "malformed"

\* C1: the merged unique_urls is the number of urls in the union of the urls
\* of the visit records of the merged sources.
C1_UniqueUrlsIsUnion ==
    (Merged /\ NoMalformedUrl) =>
        mergeDir.aggregate.data.unique_urls =
            Cardinality(UNION {NonEmptyUrls(SourceRecords(s)) : s \in Range(MergedSources)})

\* C2: per date, the merged visits and total_visits are the number of the
\* sources' records of that date, and unique_urls the number of distinct
\* non-empty urls among them.
C2_DailyCounts ==
    Merged =>
        LET summary == mergeDir.aggregate.data.daily_summary
            sources == MergedSources
        IN /\ {summary[i].date : i \in 1..Len(summary)} =
                UNION {DOMAIN disk[s].daily.files : s \in Range(sources)}
           /\ \A i \in 1..Len(summary) :
                LET d == summary[i].date
                    total == SumSeq([k \in 1..Len(sources) |->
                                        Len(SourceRecordsOn(sources[k], d))])
                    urls == UNION {NonEmptyUrls(SourceRecordsOn(s, d)) : s \in Range(sources)}
                IN /\ summary[i].visits = total
                   /\ summary[i].unique_urls = Cardinality(urls)
                   /\ d \in DOMAIN mergeDir.daily
                   /\ mergeDir.daily[d].total_visits = total
                   /\ Len(mergeDir.daily[d].visits) = total
                   /\ mergeDir.daily[d].unique_urls = Cardinality(urls)

\* One url visited once under each source on one date: 2 visits, 1 url.
C2_Witness ==
    /\ Merged
    /\ \E d \in DOMAIN mergeDir.daily :
          /\ mergeDir.daily[d].total_visits = 2
          /\ mergeDir.daily[d].unique_urls = 1
          /\ mergeDir.daily[d].visits[1].source # mergeDir.daily[d].visits[2].source
          /\ mergeDir.daily[d].visits[1].url = mergeDir.daily[d].visits[2].url
          /\ \E i \in 1..Len(mergeDir.aggregate.data.daily_summary) :
                mergeDir.aggregate.data.daily_summary[i] =
                    [date |-> d, visits |-> 2, unique_urls |-> 1]

\* The number of the merged sources' records that have the key.
RecordsWith(Key(_), k) ==
    SumSeq([i \in 1..Len(MergedSources) |->
              Cardinality({m \in 1..Len(SourceRecords(MergedSources[i])) :
                              Key(SourceRecords(MergedSources[i])[m]) = k})])

DomainOfRecord(r) == r.domain

UrlOfRecord(r) == r.url

QueryOfRecord(r) == extract_search_query(r.url)

\* Every source has at most one aggregate file.
OneAggregateEach == \A s \in SourceNames : Cardinality(DOMAIN disk[s].aggregates) <= 1

\* C3: the merged count of a domain, url or query is the number of the merged
\* sources' records with it.
C3_CountsAdditive ==
    (Merged /\ NoMalformedUrl /\ OneAggregateEach) =>
        LET agg == mergeDir.aggregate.data
        IN /\ \A i \in 1..Len(agg.top_domains) :
                agg.top_domains[i].visit_count =
                    RecordsWith(DomainOfRecord, agg.top_domains[i].domain)
           /\ \A i \in 1..Len(agg.top_urls) :
                agg.top_urls[i].visit_count =
                    RecordsWith(UrlOfRecord, agg.top_urls[i].url)
           /\ \A i \in 1..Len(agg.top_search_queries) :
                agg.top_search_queries[i].count =
                    RecordsWith(QueryOfRecord,
                                [raised |-> FALSE, has |-> TRUE,
                                 v |-> agg.top_search_queries[i].query])

\* C4: a merge run again, with the same --sources and no export in between,
\* leaves every file of the merge directory as the run before it left it.
C4_MergeIdempotent ==
    [][(lastRun'.program = "merge" /\ lastRun'.again /\ runs' # runs)
        => mergeDir' = mergeDir]_vars

\* A second merge in a row, over exported data.
C4_Witness ==
    /\ Merged
    /\ lastRun.again
    /\ lastRun.exit = 0
    /\ mergeDir.aggregate.data.total_visits > 0
    /\ DOMAIN mergeDir.daily # {}
    /\ mergeDir.llm.data # <<>>

\* A named source has no artifacts: no daily directory, no aggregate file, no
\* llm_input.json.
HasArtifacts(s) ==
    disk[s].daily.exists \/ DOMAIN disk[s].aggregates # {} \/ disk[s].llm.exists

\* C5: a merge over sources of which some have no artifacts ends with status 0,
\* and what it writes is what the merge of the other sources alone writes.
C5_MissingSourceSkipped ==
    (Merged /\ \E s \in Range(MergedSources) : ~HasArtifacts(s)) =>
        LET others == SelectSeq(MergedSources, HasArtifacts)
            by_date == merge_by_date(others, disk)
            files == merge_daily_files(by_date)
        IN /\ lastRun.exit = 0
           /\ mergeDir.aggregate.exists
           /\ mergeDir.aggregate.data =
                merge_aggregate(others, disk, merge_daily_summary(by_date))
           /\ mergeDir.llm.exists
           /\ mergeDir.llm.data = merge_llm_input(others, disk)
           /\ \A d \in DOMAIN files : d \in DOMAIN mergeDir.daily /\ mergeDir.daily[d] = files[d]

\* A merge of an exported source and one that was never exported.
C5_Witness ==
    /\ Merged
    /\ lastRun.exit = 0
    /\ \E s \in Range(MergedSources) : ~HasArtifacts(s)
    /\ \E s \in Range(MergedSources) : HasArtifacts(s)
    /\ mergeDir.aggregate.data.total_visits > 0

\* C14: after any sequence of exports followed by a merge, the merged
\* aggregate's total_visits is the sum of the visits of its daily_summary
\* entries and the sum of its 24 hourly buckets.  The histories hold no
\* malformed url, so that every export ran to its end.
C14_MergedAggregateConsistent ==
    (Merged /\ NoMalformedUrl) =>
        LET agg == mergeDir.aggregate.data
        IN /\ Len(agg.hourly_distribution) = HoursPerDay
           /\ agg.total_visits = SumSeq(agg.hourly_distribution)
           /\ agg.total_visits =
                SumSeq([i \in 1..Len(agg.daily_summary) |-> agg.daily_summary[i].visits])

-----------------------------------------------------------------------------
(* Claims about decode_transition, under SpecDecode.                       *)

\* The number in the low 8 bits of a transition value.
LowByte(bits) ==
    SumSeq([i \in 1..8 |-> IF (i - 1) \in bits THEN 2 ^ (i - 1) ELSE 0])

C9_Categories ==
    <<"link", "typed", "auto_bookmark", "auto_subframe", "manual_subframe",
      "generated", "auto_toplevel", "form_submit", "reload", "keyword",
      "keyword_generated">>

\* C9: the category is decided by the low 8 bits alone: cores 0..10 give the
\* eleven names in order, every other core gives "unknown_<core>", and the
\* value with every higher bit cleared decodes to the same category.
C9_CategoryByCore ==
    decoded # NotDecoded =>
        LET core == LowByte(transition)
        IN /\ core \in 0..10 => decoded.type = C9_Categories[core + 1]
           /\ core \in 11..255 => decoded.type = "unknown_" \o ToString(core)
           /\ decoded.type = decode_transition(transition \cap CoreBits).type

\* An unknown core under set qualifier and middle bits, and a named one.
C9_Witness ==
    /\ decoded # NotDecoded
    /\ LowByte(transition) = 200
    /\ {8, 23, 24, 31} \subseteq transition
    /\ decoded.type = "unknown_200"

C10_QualifierOfBit ==
    [b \in QualifierBits |->
        CASE b = 24 -> "chain_start" [] b = 25 -> "chain_end"
          [] b = 26 -> "client_redirect" [] b = 27 -> "server_redirect"
          [] b = 28 -> "is_redirect" [] b = 29 -> "from_address_bar"
          [] b = 30 -> "home_page" [] b = 31 -> "user_gesture"]

C10_BitOfQualifier(name) == CHOOSE b \in QualifierBits : C10_QualifierOfBit[b] = name

\* C10: the qualifier list holds exactly the qualifiers whose bit is set, each
\* once, in ascending order of the bits, whatever the low 24 bits are.
C10_QualifiersBySetBits ==
    decoded # NotDecoded =>
        LET q == decoded.qualifiers
            set == transition \cap QualifierBits
        IN /\ Range(q) = {C10_QualifierOfBit[b] : b \in set}
           /\ Len(q) = Cardinality(set)
           /\ \A i, j \in 1..Len(q) :
                i < j => C10_BitOfQualifier(q[i]) < C10_BitOfQualifier(q[j])
           /\ q = decode_transition(set).qualifiers

\* Two qualifier bits set over non-zero low bits.
C10_Witness ==
    /\ decoded # NotDecoded
    /\ transition \cap QualifierBits = {24, 25, 31}
    /\ transition \cap (CoreBits \cup MiddleBits) # {}
    /\ decoded.qualifiers = <<"chain_start", "chain_end", "user_gesture">>

-----------------------------------------------------------------------------
(* Claims about the timestamp conversions, under SpecTime.                 *)

\* C11: converting an instant to a Chrome timestamp and back gives the
\* instant again, and the timestamp is the instant's microseconds since an
\* epoch 11,644,473,600 seconds before the UNIX epoch.
C11_RoundTripExact ==
    roundTrip # NotConverted =>
        /\ roundTrip.datetime = instant
        /\ roundTrip.chrome_ts =
             [seconds |-> BigAdd(Big(instant.seconds), EpochOffset),
              micros |-> instant.micros]

-----------------------------------------------------------------------------
(* Claims about extract_search_query, under SpecQuery.                     *)

\* The engine table of the claim: the parameter of each host.
C13_EngineParam ==
    [h \in {"www.google.com", "google.com", "www.bing.com", "bing.com",
            "duckduckgo.com", "www.duckduckgo.com", "search.brave.com",
            "search.yahoo.com", "yahoo.com"} |->
        IF h \in {"search.yahoo.com", "yahoo.com"} THEN "p" ELSE "q"]

\* The hosts of the search-only provider.
C13_SearchOnlyHosts == {"duckduckgo.com", "www.duckduckgo.com"}

\* C13: a query is returned exactly when the host is in the engine table and
\* (the path contains "search" or the host is a DuckDuckGo host,
\* www.duckduckgo.com included) and the engine's parameter has a non-empty
\* value; it is then the first such value.  Host and path are compared in
\* lower case.
C13_QueryConditions ==
    (queryResult.called /\ queryUrl.kind # "malformed") =>
        LET host == Lower(queryUrl.host)
            path == Lower(queryUrl.path)
            fires == /\ host \in DOMAIN C13_EngineParam
                     /\ (Contains(path, "search") \/ host \in C13_SearchOnlyHosts)
            values == IF fires
                      THEN SelectSeq(queryUrl.query,
                                     LAMBDA kv : kv[1] = C13_EngineParam[host] /\ kv[2] # "")
                      ELSE <<>>
        IN /\ ~queryResult.result.raised
           /\ queryResult.result.has <=> values # <<>>
           /\ queryResult.result.has => queryResult.result.v = values[1][2]

====
